---- MODULE Spec2Model ----
(***************************************************************************)
(* The ArrayBuffer builtin of boa (boa/src/builtins/array_buffer/mod.rs)   *)
(* as a state machine: the heap of ArrayBuffer objects, the borrow flag of *)
(* each object's cell, the frame of a slice call suspended in user code,   *)
(* and the completion of the last call.                                    *)
(***************************************************************************)
EXTENDS Integers, Sequences, FiniteSets, TLC

(***************************************************************************)
(* Bounds of the model.                                                    *)
(***************************************************************************)
MaxBufs == 2
MaxLen == 2
\* the largest byte of the buffers slice is called on as a function
MaxByte == 2
\* the longest buffer set_value_in_buffer is called on as a function
MaxBlockLen == 9

BufIds == 1..MaxBufs
Lens == 0..MaxLen
\* relative indices reach one past the longest buffer in both directions
RelInts == (0 - (MaxLen + 1))..(MaxLen + 1)

(***************************************************************************)
(* JsValue: a tag and a payload.  "buffer" values are object references to *)
(* heap slots; "object" values are host objects that are not ArrayBuffers  *)
(* (payload: the ObjectData variant); "thunk" values are objects whose     *)
(* valueOf is user code returning the payload.                             *)
(***************************************************************************)
Undefined == [t |-> "undefined", v |-> 0]
Number(n) == [t |-> "number", v |-> n]
PosInfinity == [t |-> "infinity", v |-> 1]
NegInfinity == [t |-> "infinity", v |-> 0 - 1]
BigInt(n) == [t |-> "bigint", v |-> n]
SymbolValue == [t |-> "symbol", v |-> 0]
OtherKey == [t |-> "string", v |-> 0]
Thunk(n) == [t |-> "thunk", v |-> n]
BufferRef(b) == [t |-> "buffer", v |-> b]
OrdinaryObj == [t |-> "object", v |-> 0]
TypedArrayObj == [t |-> "object", v |-> 1]
DataViewObj == [t |-> "object", v |-> 2]
\* no value: the call-out did not return one
NoValue == [t |-> "none", v |-> 0]
ArrayBufferCtor == [t |-> "function", v |-> 0]
UserCtor == [t |-> "function", v |-> 1]

HostObjects == {OrdinaryObj, TypedArrayObj, DataViewObj}

\* Option<Vec<u8>>: None is the absent block
None == [present |-> FALSE, bytes |-> <<>>]
Some(block) == [present |-> TRUE, bytes |-> block]

\* a heap slot no object has been created in yet
Free == [used |-> FALSE,
         array_buffer_data |-> None,
         array_buffer_byte_length |-> 0,
         array_buffer_detach_key |-> Undefined]

\* struct ArrayBuffer
ArrayBuffer(data, len, key) ==
    [used |-> TRUE,
     array_buffer_data |-> data,
     array_buffer_byte_length |-> len,
     array_buffer_detach_key |-> key]

\* completions
Ok(val) == [kind |-> "ok", msg |-> "", val |-> val]
Throw(kind, msg) == [kind |-> kind, msg |-> msg, val |-> Undefined]
Panic(msg) == [kind |-> "panic", msg |-> msg, val |-> Undefined]

\* vec![0; n]
Zeros(n) == [i \in 1..n |-> 0]

VARIABLES
    heap,      \* BufIds -> ArrayBuffer object data (or Free)
    borrows,   \* BufIds -> number of shared borrows of the object's cell
    sl,        \* frame of the slice call in flight
    last,      \* the last completed call: operation, arguments, completion
    aborted    \* the process has panicked

vars == <<heap, borrows, sl, last, aborted>>

(***************************************************************************)
(* Object model helpers.                                                   *)
(***************************************************************************)
\* JsValue::as_object
as_object(v) == v.t \in {"object", "buffer", "thunk", "function"}

\* Object::as_array_buffer on the object a value refers to
as_array_buffer(v, h) == v.t = "buffer" /\ h[v.v].used

\* JsValue::same_value: objects are the same value iff they are the same object
same_value(x, y) == x = y

\* GcCell::borrow_mut succeeds only while no borrow of the cell is live
can_borrow_mut(b, bw) == bw[b] = 0

Max(a, b) == IF a >= b THEN a ELSE b
Min(a, b) == IF a <= b THEN a ELSE b

UsedIds(h) == {b \in BufIds : h[b].used}
HasFree(h) == UsedIds(h) # BufIds
\* Context::construct_object: the next object of the heap
NewId(h) == CHOOSE b \in BufIds \ UsedIds(h) : \A c \in BufIds \ UsedIds(h) : b <= c

(***************************************************************************)
(* ArrayBuffer::is_detached_buffer                                         *)
(***************************************************************************)
is_detached_buffer(o) == ~o.array_buffer_data.present

(***************************************************************************)
(* ArrayBuffer::allocate: the new heap and the completion (the object).    *)
(***************************************************************************)
\* a usize on two limbs, hi * 65536 + lo: the lengths around 2^33 are beyond
\* the integers of the model
usize(hi, lo) == [hi |-> hi, lo |-> lo]
usize_of(n) == usize(n \div 65536, n % 65536)
\* the length as an integer of the model where it is one (below 2^31)
usize_value(u) == IF u.hi < 32768 THEN u.hi * 65536 + u.lo ELSE u

\* vec![0; byte_length]: the sequence of the bytes where the length is an
\* integer of the model, and the fill and the length of the vector beyond
vec_zeroed(u) ==
    IF u.hi < 32768 THEN Zeros(u.hi * 65536 + u.lo) ELSE [fill |-> 0, len |-> u]

\* byte_length >= 8589934592
above_allocation_limit_inclusive(u) == u.hi >= 131072

\* byte_length > 8589934592 (2^33 = 131072 * 65536)
above_allocation_limit(u) ==
    \/ u.hi > 131072
    \/ u.hi = 131072 /\ u.lo > 0

exceeds_allocation_limit(byteLength) == above_allocation_limit(usize_of(byteLength))

\* allocate on a byte length of the full width of usize
allocate_usize(u, h) ==
    IF above_allocation_limit(u)
    THEN [heap |-> h, res |-> Throw("RangeError", "ArrayBuffer allocation failed")]
    ELSE LET obj == NewId(h)
         IN [heap |-> [h EXCEPT ![obj] =
                          ArrayBuffer(Some(vec_zeroed(u)), usize_value(u), Undefined)],
             res |-> Ok(BufferRef(obj))]

\* allocate with a detach key that is not undefined
allocate_other_key(byteLength, h) ==
    IF exceeds_allocation_limit(byteLength)
    THEN [heap |-> h, res |-> Throw("RangeError", "ArrayBuffer allocation failed")]
    ELSE LET obj == NewId(h)
         IN [heap |-> [h EXCEPT ![obj] =
                          ArrayBuffer(Some(Zeros(byteLength)), byteLength, OtherKey)],
             res |-> Ok(BufferRef(obj))]

allocate(byteLength, h) == allocate_usize(usize_of(byteLength), h)

(***************************************************************************)
(* JsValue::to_index as the constructor uses it: an integer below zero is  *)
(* a RangeError, undefined is 0.                                           *)
(***************************************************************************)
to_index(v) ==
    CASE v.t = "undefined" -> Ok(Number(0))
      [] v.t = "number" /\ v.v >= 0 -> Ok(v)
      [] v.t = "number" /\ v.v < 0 -> Throw("RangeError", "Integer index must be >= 0")
      [] OTHER -> Throw("TypeError", "cannot convert to index")

(***************************************************************************)
(* ArrayBuffer::constructor                                                *)
(***************************************************************************)
constructor(new_target, length, h) ==
    IF new_target.t = "undefined"
    THEN [heap |-> h,
          res |-> Throw("TypeError", "ArrayBuffer.constructor called with undefined new target")]
    ELSE LET byteLength == to_index(length)
         IN IF byteLength.kind # "ok"
            THEN [heap |-> h, res |-> byteLength]
            ELSE allocate(byteLength.val.v, h)

\* byte_length without step 4
byte_length_no_detached_check(this, h) ==
    IF ~as_object(this)
    THEN Throw("TypeError", "ArrayBuffer.byteLength called with non-object value")
    ELSE IF ~as_array_buffer(this, h)
    THEN Throw("TypeError", "ArrayBuffer.byteLength called with invalid object")
    ELSE Ok(Number(h[this.v].array_buffer_byte_length))

(***************************************************************************)
(* ArrayBuffer::byte_length (the byteLength getter)                        *)
(***************************************************************************)
byte_length(this, h) ==
    IF ~as_object(this)
    THEN Throw("TypeError", "ArrayBuffer.byteLength called with non-object value")
    ELSE IF ~as_array_buffer(this, h)
    THEN Throw("TypeError", "ArrayBuffer.byteLength called with invalid object")
    ELSE IF is_detached_buffer(h[this.v])
    THEN Ok(Number(0))
    ELSE Ok(Number(h[this.v].array_buffer_byte_length))

(***************************************************************************)
(* ArrayBuffer::is_view                                                    *)
(***************************************************************************)
is_typed_array(v) == v = TypedArrayObj

is_view(arg) ==
    Ok([t |-> "boolean", v |-> IF as_object(arg) /\ is_typed_array(arg) THEN 1 ELSE 0])

(***************************************************************************)
(* DetachArrayBuffer(buffer, key): the key must be the buffer's detach     *)
(* key; the block becomes absent.  The byte-length field is left as it is. *)
(***************************************************************************)
detach_array_buffer(b, key, h) ==
    IF ~same_value(h[b].array_buffer_detach_key, key)
    THEN [heap |-> h, res |-> Throw("TypeError", "Cannot detach array buffer with different key")]
    ELSE [heap |-> [h EXCEPT ![b].array_buffer_data = None], res |-> Ok(Undefined)]

(***************************************************************************)
(* copy_data_block_bytes: the two assertions, then the loop.  Blocks are   *)
(* 0-indexed in the code and 1-indexed here.                               *)
(***************************************************************************)
\* the loop copying the bytes from the last to the first
copy_loop_reversed(to_block, toIndex, from_block, fromIndex, count) ==
    [block |-> [i \in 1..Len(to_block) |->
                  IF i > toIndex /\ i <= toIndex + count
                  THEN from_block[fromIndex + count + 1 - (i - toIndex)]
                  ELSE to_block[i]],
     stores |-> count]

\* the block afterwards and the number of stores made
RECURSIVE copy_loop(_, _, _, _, _)
copy_loop(to_block, toIndex, from_block, fromIndex, count) ==
    IF count > 0
    THEN LET rest == copy_loop([to_block EXCEPT ![toIndex + 1] = from_block[fromIndex + 1]],
                               toIndex + 1, from_block, fromIndex + 1, count - 1)
         IN [block |-> rest.block, stores |-> rest.stores + 1]
    ELSE [block |-> to_block, stores |-> 0]

copy_data_block_bytes(to_block, toIndex, from_block, fromIndex, count) ==
    IF ~(fromIndex + count <= Len(from_block))
    THEN [ok |-> FALSE, block |-> to_block, stores |-> 0]
    ELSE IF ~(toIndex + count <= Len(to_block))
    THEN [ok |-> FALSE, block |-> to_block, stores |-> 0]
    ELSE LET copied == copy_loop(to_block, toIndex, from_block, fromIndex, count)
         IN [ok |-> TRUE, block |-> copied.block, stores |-> copied.stores]

(***************************************************************************)
(* Element types and the codec.                                            *)
(***************************************************************************)
\* TypedArrayName::element_size
element_size(t) ==
    CASE t \in {"Int8Array", "Uint8Array", "Uint8ClampedArray"} -> 1
      [] t \in {"Int16Array", "Uint16Array"} -> 2
      [] t \in {"Int32Array", "Uint32Array", "Float32Array"} -> 4
      [] t \in {"BigInt64Array", "BigUint64Array", "Float64Array"} -> 8

\* Option<bool>
NoFlag == [present |-> FALSE, val |-> FALSE]
Flag(b) == [present |-> TRUE, val |-> b]
\* unwrap_or giving false for None
unwrap_or_false(opt, default) == opt.val
unwrap_or(opt, default) == IF opt.present THEN opt.val ELSE default

\* JsValue::to_number restricted to integral numbers: undefined is NaN,
\* a symbol and a BigInt are TypeErrors
to_number(value) ==
    CASE value.t \in {"number", "rational", "infinity"} -> Ok(value)
      [] value.t = "undefined" -> Ok(Number(0))
      [] value.t = "symbol" -> Throw("TypeError", "can't convert symbol to number")
      [] value.t = "bigint" -> Throw("TypeError", "can't convert BigInt to number")
      [] OTHER -> Throw("TypeError", "can't convert to number")

\* JsValue::to_int8, to_uint8, to_int16, to_uint16: modulo 2^N, reinterpreted
to_int8(n) == ((n + 128) % 256) - 128
to_uint8(n) == n % 256
to_int16(n) == ((n + 32768) % 65536) - 32768
to_uint16(n) == n % 65536
\* JsValue::to_uint8_clamp on an integral number
to_uint8_clamp(n) == Min(Max(n, 0), 255)

\* {integer}::to_le_bytes / to_be_bytes: two's complement, width bytes
RECURSIVE to_le_bytes(_, _)
to_le_bytes(n, width) ==
    IF width = 0 THEN <<>> ELSE <<n % 256>> \o to_le_bytes(n \div 256, width - 1)

Reverse(seq) == [i \in 1..Len(seq) |-> seq[Len(seq) + 1 - i]]
to_be_bytes(n, width) == Reverse(to_le_bytes(n, width))

\* {unsigned}::from_le_bytes / from_be_bytes
RECURSIVE from_le_bytes(_)
from_le_bytes(bytes) ==
    IF bytes = <<>> THEN 0 ELSE bytes[1] + 256 * from_le_bytes(Tail(bytes))
from_be_bytes(bytes) == from_le_bytes(Reverse(bytes))

(***************************************************************************)
(* Integers of more than 32 bits (the integers of the model have 32): the  *)
(* sign and the magnitude, the magnitude on base-256 digits, the least     *)
(* significant first and the most significant not 0.                       *)
(***************************************************************************)
Wide(neg, mag) == [neg |-> neg, mag |-> mag]

RECURSIVE trim(_)
trim(digits) ==
    IF digits = <<>> THEN <<>>
    ELSE IF digits[Len(digits)] = 0 THEN trim(SubSeq(digits, 1, Len(digits) - 1))
    ELSE digits

\* the digits of n >= 0, and of -n for n < 0 (without negating n)
RECURSIVE digits_of(_)
digits_of(n) == IF n = 0 THEN <<>> ELSE <<n % 256>> \o digits_of(n \div 256)
RECURSIVE digits_of_negative(_)
digits_of_negative(n) ==
    IF n = 0 THEN <<>>
    ELSE LET low == (256 - (n % 256)) % 256
         IN <<low>> \o digits_of_negative((n + low) \div 256)

\* an i32 as a wide integer, and back
wide_of(n) ==
    IF n >= 0 THEN Wide(FALSE, digits_of(n)) ELSE Wide(TRUE, digits_of_negative(n))
RECURSIVE signed_sum(_, _)
signed_sum(digits, sign) ==
    IF digits = <<>> THEN 0 ELSE sign * digits[1] + 256 * signed_sum(Tail(digits), sign)
int_of(x) == signed_sum(x.mag, IF x.neg THEN 0 - 1 ELSE 1)
fits_i32(x) ==
    \/ Len(x.mag) <= 3
    \/ Len(x.mag) = 4 /\ x.mag[4] < 128
    \/ x.neg /\ x.mag = <<0, 0, 0, 128>>

\* the magnitude modulo 256^width, on width bytes
low_digits(mag, width) == [i \in 1..width |-> IF i <= Len(mag) THEN mag[i] ELSE 0]

\* the two's complement of a byte string: every bit inverted, and one added
RECURSIVE add_one(_)
add_one(bytes) ==
    IF bytes = <<>> THEN <<>>
    ELSE IF bytes[1] = 255 THEN <<0>> \o add_one(Tail(bytes))
    ELSE <<bytes[1] + 1>> \o Tail(bytes)
twos_complement(bytes) == add_one([i \in 1..Len(bytes) |-> 255 - bytes[i]])

\* {i32, u32, i64, u64}::to_le_bytes / to_be_bytes
wide_to_le_bytes(x, width) ==
    IF x.neg THEN twos_complement(low_digits(x.mag, width)) ELSE low_digits(x.mag, width)
\* to_be_bytes giving the bytes in the order of to_le_bytes
wide_to_be_bytes_unreversed(x, width) == wide_to_le_bytes(x, width)
wide_to_be_bytes(x, width) == Reverse(wide_to_le_bytes(x, width))

\* {u32, u64}::from_le_bytes / from_be_bytes
unsigned_from_le_bytes(bytes) == Wide(FALSE, trim(bytes))
unsigned_from_be_bytes(bytes) == unsigned_from_le_bytes(Reverse(bytes))
\* {i32, i64}::from_le_bytes / from_be_bytes
signed_from_le_bytes(bytes) ==
    IF bytes[Len(bytes)] >= 128
    THEN Wide(TRUE, trim(twos_complement(bytes)))
    ELSE Wide(FALSE, trim(bytes))
\* from_be_bytes reading the bytes in the order of from_le_bytes
signed_from_be_bytes_unreversed(bytes) == signed_from_le_bytes(bytes)
signed_from_be_bytes(bytes) == signed_from_le_bytes(Reverse(bytes))

\* JsValue::Rational holding an integer that is no i32; JsValue::Integer is
\* Number(n).  The payload of a BigInt is a wide integer.
Rational(x) == [t |-> "rational", v |-> x]
NaN == [t |-> "nan", v |-> 0]
\* a float that is not an integer below 2^20: its bytes, the low one first
Float(bits) == [t |-> "float", v |-> bits]
\* the integer a Number or a BigInt holds
integral(v) == IF v.t = "number" THEN wide_of(v.v) ELSE v.v
\* JsValue::new of an integer
from_integer(x) == IF fits_i32(x) THEN Number(int_of(x)) ELSE Rational(x)

\* JsValue::to_i32, to_u32, to_big_int64, to_big_uint64: modulo 2^N,
\* reinterpreted
to_i32(x) == signed_from_le_bytes(wide_to_le_bytes(x, 4))
to_u32(x) == unsigned_from_le_bytes(wide_to_le_bytes(x, 4))
to_big_int64(x) == signed_from_le_bytes(wide_to_le_bytes(x, 8))
to_big_uint64(x) == unsigned_from_le_bytes(wide_to_le_bytes(x, 8))

\* JsValue::to_bigint of a value that is no Number: a BigInt is itself,
\* undefined and a symbol are TypeErrors
to_bigint(value) ==
    CASE value.t = "bigint" -> Ok(value)
      [] value.t = "undefined" -> Throw("TypeError", "cannot convert undefined to a BigInt")
      [] value.t = "symbol" -> Throw("TypeError", "cannot convert Symbol to a BigInt")
      [] OTHER -> Throw("TypeError", "cannot convert to a BigInt")

(***************************************************************************)
(* Floats.  The model holds the numbers that are integers below 2^20 in    *)
(* magnitude, the infinities and NaN; the two zeros and the two variants   *)
(* of JsValue for a number are not told apart.                             *)
(***************************************************************************)
RECURSIVE log2(_)
log2(n) == IF n < 2 THEN 0 ELSE 1 + log2(n \div 2)
RECURSIVE pow2(_)
pow2(k) == IF k = 0 THEN 1 ELSE 2 * pow2(k - 1)

\* the sign, the biased exponent and the leading fraction_bits bits of the
\* fraction of f (the bits after them are 0)
float_fields(f, bias, fraction_bits) ==
    CASE f.t = "infinity" -> [sign |-> f.v < 0, exp |-> 2 * bias + 1, frac |-> 0]
      [] f.t = "nan" -> [sign |-> FALSE, exp |-> 2 * bias + 1,
                         frac |-> pow2(fraction_bits - 1)]
      [] f.t = "number" /\ f.v = 0 -> [sign |-> FALSE, exp |-> 0, frac |-> 0]
      [] f.t = "number" /\ f.v # 0 ->
            LET a == IF f.v < 0 THEN 0 - f.v ELSE f.v
                e == log2(a)
            IN [sign |-> f.v < 0, exp |-> e + bias,
                frac |-> (a - pow2(e)) * pow2(fraction_bits - e)]

\* the four most significant bytes of the float, the low one first
float_top_bytes(f, bias, fraction_bits) ==
    LET fields == float_fields(f, bias, fraction_bits)
        low == to_le_bytes(fields.exp * pow2(fraction_bits) + fields.frac, 4)
    IN [low EXCEPT ![4] = @ + (IF fields.sign THEN 128 ELSE 0)]

\* f32::to_le_bytes, f64::to_le_bytes and their to_be_bytes
f32_to_le_bytes(f) == float_top_bytes(f, 127, 23)
f32_to_be_bytes(f) == Reverse(f32_to_le_bytes(f))
f64_to_le_bytes(f) == <<0, 0, 0, 0>> \o float_top_bytes(f, 1023, 20)
f64_to_be_bytes(f) == Reverse(f64_to_le_bytes(f))

\* the float of the four most significant bytes top, the bits below them
\* being 0 iff low_zero; bits is the whole float
float_of_bytes(top, low_zero, bias, fraction_bits, bits) ==
    LET sign == top[4] >= 128
        top31 == from_le_bytes([top EXCEPT ![4] = @ % 128])
        exp == top31 \div pow2(fraction_bits)
        frac == top31 % pow2(fraction_bits)
        e == exp - bias
    IN IF exp = 2 * bias + 1
       THEN IF frac = 0 /\ low_zero
            THEN (IF sign THEN NegInfinity ELSE PosInfinity)
            ELSE NaN
       ELSE IF exp = 0 /\ frac = 0 /\ low_zero
       THEN Number(0)
       ELSE IF e >= 0 /\ e <= 20 /\ low_zero /\ frac % pow2(fraction_bits - e) = 0
       THEN Number((IF sign THEN 0 - 1 ELSE 1)
                   * (pow2(e) + frac \div pow2(fraction_bits - e)))
       ELSE Float(bits)

\* f32::from_le_bytes, f64::from_le_bytes and their from_be_bytes
f32_from_le_bytes(bytes) == float_of_bytes(bytes, TRUE, 127, 23, bytes)
f32_from_be_bytes(bytes) == f32_from_le_bytes(Reverse(bytes))
f64_from_le_bytes(bytes) ==
    float_of_bytes(SubSeq(bytes, 5, 8), SubSeq(bytes, 1, 4) = <<0, 0, 0, 0>>,
                   1023, 20, bytes)
f64_from_be_bytes(bytes) == f64_from_le_bytes(Reverse(bytes))

(***************************************************************************)
(* BigInt::to_i64 and to_u64 with the fallbacks of numeric_to_raw_bytes.   *)
(***************************************************************************)
I64Max == Wide(FALSE, <<255, 255, 255, 255, 255, 255, 255, 127>>)
I64Min == Wide(TRUE, <<0, 0, 0, 0, 0, 0, 0, 128>>)
U64Max == Wide(FALSE, <<255, 255, 255, 255, 255, 255, 255, 255>>)

\* BigInt::to_i64 and to_u64 are Some
fits_i64(x) ==
    \/ Len(x.mag) <= 7
    \/ Len(x.mag) = 8 /\ x.mag[8] < 128
    \/ x.neg /\ x.mag = I64Min.mag
fits_u64(x) == ~x.neg /\ Len(x.mag) <= 8
is_positive(x) == ~x.neg /\ x.mag # <<>>

\* big_int.to_i64().unwrap_or_else(|| if big_int.is_positive() { i64::MAX }
\* else { i64::MIN })
big_int_to_i64(big_int) ==
    IF fits_i64(big_int) THEN big_int
    ELSE IF is_positive(big_int) THEN I64Max ELSE I64Min

\* big_uint.to_u64().unwrap_or(u64::MAX)
big_int_to_u64(big_int) == IF fits_u64(big_int) THEN big_int ELSE U64Max

\* the element types of one or two bytes
SmallTypes == {"Int8Array", "Uint8Array", "Uint8ClampedArray", "Int16Array", "Uint16Array"}

(***************************************************************************)
(* ArrayBuffer::numeric_to_raw_bytes: the completion and the bytes.        *)
(***************************************************************************)
ElementTypes ==
    SmallTypes \cup {"Int32Array", "Uint32Array", "BigInt64Array", "BigUint64Array",
                     "Float32Array", "Float64Array"}
BigIntTypes == {"BigInt64Array", "BigUint64Array"}
FloatTypes == {"Float32Array", "Float64Array"}

\* the value of the element type the coerced value becomes
element_value(t, coerced) ==
    CASE t = "Int8Array" -> to_int8(coerced.v)
      [] t = "Uint8Array" -> to_uint8(coerced.v)
      [] t = "Uint8ClampedArray" -> to_uint8_clamp(coerced.v)
      [] t = "Int16Array" -> to_int16(coerced.v)
      [] t = "Uint16Array" -> to_uint16(coerced.v)
      [] t = "Int32Array" -> to_i32(integral(coerced))
      [] t = "Uint32Array" -> to_u32(integral(coerced))
      [] t = "BigInt64Array" -> big_int_to_i64(to_big_int64(integral(coerced)))
      [] t = "BigUint64Array" -> big_int_to_u64(to_big_uint64(integral(coerced)))
      [] t \in FloatTypes -> coerced

\* the arms of the match with is_little_endian true, and with it false
element_to_le_bytes(t, fixed) ==
    CASE t \in SmallTypes -> to_le_bytes(fixed, element_size(t))
      [] t = "Float32Array" -> f32_to_le_bytes(fixed)
      [] t = "Float64Array" -> f64_to_le_bytes(fixed)
      [] OTHER -> wide_to_le_bytes(fixed, element_size(t))
element_to_be_bytes(t, fixed) ==
    CASE t \in SmallTypes -> to_be_bytes(fixed, element_size(t))
      [] t = "Float32Array" -> f32_to_be_bytes(fixed)
      [] t = "Float64Array" -> f64_to_be_bytes(fixed)
      [] OTHER -> wide_to_be_bytes(fixed, element_size(t))

numeric_to_raw_bytes(t, value, is_little_endian) ==
    LET num == IF t \in BigIntTypes THEN to_bigint(value) ELSE to_number(value)
        fixed == element_value(t, num.val)
    IN IF num.kind # "ok"
       THEN [res |-> num, bytes |-> <<>>]
       ELSE [res |-> Ok(Undefined),
             bytes |-> IF is_little_endian
                       THEN element_to_le_bytes(t, fixed)
                       ELSE element_to_be_bytes(t, fixed)]

(***************************************************************************)
(* ArrayBuffer::raw_bytes_to_numeric                                       *)
(***************************************************************************)
raw_bytes_to_numeric(t, bytes, is_little_endian) ==
    LET u == IF is_little_endian THEN from_le_bytes(bytes) ELSE from_be_bytes(bytes)
        signed == IF is_little_endian THEN signed_from_le_bytes(bytes)
                  ELSE signed_from_be_bytes(bytes)
        unsigned == IF is_little_endian THEN unsigned_from_le_bytes(bytes)
                    ELSE unsigned_from_be_bytes(bytes)
    IN CASE t = "Int8Array" -> Number(to_int8(u))
         [] t \in {"Uint8Array", "Uint8ClampedArray"} -> Number(u)
         [] t = "Int16Array" -> Number(to_int16(u))
         [] t = "Uint16Array" -> Number(u)
         [] t = "Int32Array" -> from_integer(signed)
         [] t = "Uint32Array" -> from_integer(unsigned)
         [] t = "BigInt64Array" -> BigInt(signed)
         [] t = "BigUint64Array" -> BigInt(unsigned)
         [] t = "Float32Array" -> IF is_little_endian THEN f32_from_le_bytes(bytes)
                                  ELSE f32_from_be_bytes(bytes)
         [] t = "Float64Array" -> IF is_little_endian THEN f64_from_le_bytes(bytes)
                                  ELSE f64_from_be_bytes(bytes)

(***************************************************************************)
(* ArrayBuffer::is_unclamped_integer_element_type, is_big_int_element_type *)
(* and is_no_tear_configuration                                            *)
(***************************************************************************)
\* enum SharedMemoryOrder
SharedMemoryOrder == {"Init", "SeqCst", "Unordered"}

is_unclamped_integer_element_type(t) ==
    t \in {"Int8Array", "Uint8Array", "Int16Array", "Uint16Array", "Int32Array",
           "Uint32Array"}

is_big_int_element_type(t) == t \in {"BigUint64Array", "BigInt64Array"}

\* is_no_tear_configuration without the test of the order
is_no_tear_configuration_any_order(t, order) ==
    IF is_unclamped_integer_element_type(t)
    THEN TRUE
    ELSE IF is_big_int_element_type(t)
    THEN TRUE
    ELSE FALSE

is_no_tear_configuration(t, order) ==
    IF is_unclamped_integer_element_type(t)
    THEN TRUE
    ELSE IF is_big_int_element_type(t) /\ order # "Init" /\ order # "Unordered"
    THEN TRUE
    ELSE FALSE

(***************************************************************************)
(* ArrayBuffer::get_value_from_buffer on the buffer o                      *)
(***************************************************************************)
get_value_from_buffer(o, byte_index, t, is_little_endian) ==
    IF is_detached_buffer(o)
    THEN Panic("ArrayBuffer cannot be detached here")
    ELSE LET block == o.array_buffer_data.bytes
         IN IF byte_index + element_size(t) > Len(block)
            THEN Panic("range end index out of range for slice")
            ELSE Ok(raw_bytes_to_numeric(
                        t,
                        SubSeq(block, byte_index + 1, byte_index + element_size(t)),
                        unwrap_or(is_little_endian, TRUE)))

(***************************************************************************)
(* ArrayBuffer::set_value_in_buffer on the buffer o: the buffer afterwards *)
(* and the completion.  The stores are made one by one, and the first one  *)
(* past the end of the block panics.                                       *)
(***************************************************************************)
\* store_bytes pushing a byte that falls past the end of the block
RECURSIVE store_bytes_push(_, _, _, _)
store_bytes_push(block, byte_index, raw_bytes, i) ==
    IF i >= Len(raw_bytes)
    THEN [ok |-> TRUE, block |-> block]
    ELSE IF byte_index + i >= Len(block)
    THEN store_bytes_push(Append(block, raw_bytes[i + 1]), byte_index, raw_bytes, i + 1)
    ELSE store_bytes_push([block EXCEPT ![byte_index + i + 1] = raw_bytes[i + 1]],
                          byte_index, raw_bytes, i + 1)

RECURSIVE store_bytes(_, _, _, _)
store_bytes(block, byte_index, raw_bytes, i) ==
    IF i >= Len(raw_bytes)
    THEN [ok |-> TRUE, block |-> block]
    ELSE IF byte_index + i >= Len(block)
    THEN [ok |-> FALSE, block |-> block]
    ELSE store_bytes([block EXCEPT ![byte_index + i + 1] = raw_bytes[i + 1]],
                     byte_index, raw_bytes, i + 1)

\* set_value_in_buffer making a block for a buffer that has none
set_value_in_buffer_reattach(o, byte_index, t, value, is_little_endian) ==
    LET block == IF is_detached_buffer(o)
                 THEN Zeros(o.array_buffer_byte_length)
                 ELSE o.array_buffer_data.bytes
        raw == numeric_to_raw_bytes(t, value, unwrap_or(is_little_endian, TRUE))
        stored == store_bytes(block, byte_index, raw.bytes, 0)
    IN IF raw.res.kind # "ok"
       THEN [buf |-> o, res |-> raw.res]
       ELSE [buf |-> [o EXCEPT !.array_buffer_data = Some(stored.block)],
             res |-> IF stored.ok THEN Ok(Undefined)
                     ELSE Panic("index out of bounds")]

\* set_value_in_buffer keeping the end of the last write as the byte length
set_value_in_buffer_sets_length(o, byte_index, t, value, is_little_endian) ==
    IF is_detached_buffer(o)
    THEN [buf |-> o, res |-> Panic("ArrayBuffer cannot be detached here")]
    ELSE LET raw == numeric_to_raw_bytes(t, value, unwrap_or(is_little_endian, TRUE))
             stored == store_bytes(o.array_buffer_data.bytes, byte_index, raw.bytes, 0)
         IN IF raw.res.kind # "ok"
            THEN [buf |-> o, res |-> raw.res]
            ELSE [buf |-> [o EXCEPT !.array_buffer_data = Some(stored.block),
                                    !.array_buffer_byte_length = byte_index + Len(raw.bytes)],
                  res |-> IF stored.ok THEN Ok(Undefined)
                          ELSE Panic("index out of bounds")]

\* set_value_in_buffer clearing the element when the coercion fails
set_value_in_buffer_clears_on_error(o, byte_index, t, value, is_little_endian) ==
    IF is_detached_buffer(o)
    THEN [buf |-> o, res |-> Panic("ArrayBuffer cannot be detached here")]
    ELSE LET raw == numeric_to_raw_bytes(t, value, unwrap_or(is_little_endian, TRUE))
             cleared == store_bytes(o.array_buffer_data.bytes, byte_index,
                                    Zeros(element_size(t)), 0)
             stored == store_bytes(o.array_buffer_data.bytes, byte_index, raw.bytes, 0)
         IN IF raw.res.kind # "ok"
            THEN [buf |-> [o EXCEPT !.array_buffer_data = Some(cleared.block)],
                  res |-> raw.res]
            ELSE [buf |-> [o EXCEPT !.array_buffer_data = Some(stored.block)],
                  res |-> IF stored.ok THEN Ok(Undefined)
                          ELSE Panic("index out of bounds")]

set_value_in_buffer(o, byte_index, t, value, is_little_endian) ==
    IF is_detached_buffer(o)
    THEN [buf |-> o, res |-> Panic("ArrayBuffer cannot be detached here")]
    ELSE LET raw == numeric_to_raw_bytes(t, value, unwrap_or(is_little_endian, TRUE))
             stored == store_bytes(o.array_buffer_data.bytes, byte_index, raw.bytes, 0)
         IN IF raw.res.kind # "ok"
            THEN [buf |-> o, res |-> raw.res]
            ELSE [buf |-> [o EXCEPT !.array_buffer_data = Some(stored.block)],
                  res |-> IF stored.ok THEN Ok(Undefined)
                          ELSE Panic("index out of bounds")]

(***************************************************************************)
(* ArrayBuffer::clone_array_buffer with the source buffer src: the target  *)
(* is allocated before the source is looked at.                            *)
(***************************************************************************)
clone_array_buffer(src, src_byte_offset, src_length, h) ==
    LET target_buffer == allocate(src_length, h)
        t == target_buffer.res.val.v
        copied == copy_data_block_bytes(target_buffer.heap[t].array_buffer_data.bytes, 0,
                                        src.array_buffer_data.bytes,
                                        src_byte_offset, src_length)
    IN IF target_buffer.res.kind # "ok"
       THEN target_buffer
       ELSE IF ~src.array_buffer_data.present
       THEN [heap |-> target_buffer.heap,
             res |-> Throw("SyntaxError", "Cannot clone detached array buffer")]
       ELSE IF ~copied.ok
       THEN [heap |-> target_buffer.heap,
             res |-> Panic("assertion failed")]
       ELSE [heap |-> [target_buffer.heap EXCEPT ![t].array_buffer_data = Some(copied.block)],
             res |-> target_buffer.res]

(***************************************************************************)
(* ArrayBuffer::slice.  The call runs to its first call-out into user code *)
(* (valueOf of start, valueOf of end, the species constructor), is resumed *)
(* when the call-out returns, and so on to its completion.                 *)
(***************************************************************************)
\* enum IntegerOrInfinity
Integer(i) == [k |-> "Integer", i |-> i]
NegativeInfinity == [k |-> "NegativeInfinity", i |-> 0]
PositiveInfinity == [k |-> "PositiveInfinity", i |-> 0]

\* JsValue::to_integer_or_infinity of a value that is no object
to_integer_or_infinity(value) ==
    CASE value.t = "number" -> [res |-> Ok(Undefined), rel |-> Integer(value.v)]
      [] value.t = "infinity" /\ value.v > 0 -> [res |-> Ok(Undefined), rel |-> PositiveInfinity]
      [] value.t = "infinity" /\ value.v < 0 -> [res |-> Ok(Undefined), rel |-> NegativeInfinity]
      [] value.t = "undefined" -> [res |-> Ok(Undefined), rel |-> Integer(0)]
      [] OTHER -> [res |-> to_number(value), rel |-> Integer(0)]

\* first_of with a negative relativeStart taken as 0
first_of_negative_is_zero(relative_start, len) ==
    CASE relative_start.k = "NegativeInfinity" -> 0
      [] relative_start.k = "Integer" /\ relative_start.i < 0 -> 0
      [] relative_start.k = "Integer" /\ relative_start.i >= 0 -> Min(relative_start.i, len)
      [] relative_start.k = "PositiveInfinity" -> len

\* steps 7-9: first from relativeStart
first_of(relative_start, len) ==
    CASE relative_start.k = "NegativeInfinity" -> 0
      [] relative_start.k = "Integer" /\ relative_start.i < 0 -> Max(len + relative_start.i, 0)
      [] relative_start.k = "Integer" /\ relative_start.i >= 0 -> Min(relative_start.i, len)
      [] relative_start.k = "PositiveInfinity" -> len

\* steps 11-13: final from relativeEnd
final_of(relative_end, len) ==
    CASE relative_end.k = "NegativeInfinity" -> 0
      [] relative_end.k = "Integer" /\ relative_end.i < 0 -> Max(len + relative_end.i, 0)
      [] relative_end.k = "Integer" /\ relative_end.i >= 0 -> Min(relative_end.i, len)
      [] relative_end.k = "PositiveInfinity" -> len

\* step 14
new_len_of(first, final) == Max(final - first, 0)

\* slice_entry without step 4
slice_entry_no_detached_check(this, h) ==
    IF ~as_object(this)
    THEN Throw("TypeError", "ArrayBuffer.slice called with non-object value")
    ELSE IF ~as_array_buffer(this, h)
    THEN Throw("TypeError", "ArrayBuffer.slice called with invalid object")
    ELSE Ok(Undefined)

\* steps 1-4: the checks of the this value
slice_entry(this, h) ==
    IF ~as_object(this)
    THEN Throw("TypeError", "ArrayBuffer.slice called with non-object value")
    ELSE IF ~as_array_buffer(this, h)
    THEN Throw("TypeError", "ArrayBuffer.slice called with invalid object")
    ELSE IF is_detached_buffer(h[this.v])
    THEN Throw("TypeError", "ArrayBuffer.slice called with detached buffer")
    ELSE Ok(Undefined)

\* slice_finish with step 21 made before step 19
slice_finish_length_first(this, first, new_len, new, h, bw) ==
    IF ~as_object(new)
    THEN [heap |-> h,
          res |-> Throw("TypeError", "ArrayBuffer constructor returned non-object value")]
    ELSE IF ~as_array_buffer(new, h)
    THEN [heap |-> h,
          res |-> Throw("TypeError", "ArrayBuffer constructor returned invalid object")]
    ELSE IF h[new.v].array_buffer_byte_length < new_len
    THEN [heap |-> h, res |-> Throw("TypeError", "New ArrayBuffer length too small")]
    ELSE IF is_detached_buffer(h[new.v])
    THEN [heap |-> h,
          res |-> Throw("TypeError", "ArrayBuffer constructor returned detached ArrayBuffer")]
    ELSE IF same_value(new, this)
    THEN [heap |-> h,
          res |-> Throw("TypeError", "New ArrayBuffer is the same as this ArrayBuffer")]
    ELSE IF ~can_borrow_mut(new.v, bw)
    THEN [heap |-> h, res |-> Panic("Object already borrowed")]
    ELSE IF is_detached_buffer(h[this.v])
    THEN [heap |-> h,
          res |-> Throw("TypeError", "ArrayBuffer detached while ArrayBuffer.slice was running")]
    ELSE LET copied == copy_data_block_bytes(h[new.v].array_buffer_data.bytes, 0,
                                             h[this.v].array_buffer_data.bytes,
                                             first, new_len)
         IN IF ~copied.ok
            THEN [heap |-> h, res |-> Panic("assertion failed")]
            ELSE [heap |-> [h EXCEPT ![new.v].array_buffer_data = Some(copied.block)],
                  res |-> Ok(new)]

\* slice_finish without step 21
slice_finish_no_length_check(this, first, new_len, new, h, bw) ==
    IF ~as_object(new)
    THEN [heap |-> h,
          res |-> Throw("TypeError", "ArrayBuffer constructor returned non-object value")]
    ELSE IF ~as_array_buffer(new, h)
    THEN [heap |-> h,
          res |-> Throw("TypeError", "ArrayBuffer constructor returned invalid object")]
    ELSE IF is_detached_buffer(h[new.v])
    THEN [heap |-> h,
          res |-> Throw("TypeError", "ArrayBuffer constructor returned detached ArrayBuffer")]
    ELSE IF same_value(new, this)
    THEN [heap |-> h,
          res |-> Throw("TypeError", "New ArrayBuffer is the same as this ArrayBuffer")]
    ELSE IF ~can_borrow_mut(new.v, bw)
    THEN [heap |-> h, res |-> Panic("Object already borrowed")]
    ELSE IF is_detached_buffer(h[this.v])
    THEN [heap |-> h,
          res |-> Throw("TypeError", "ArrayBuffer detached while ArrayBuffer.slice was running")]
    ELSE LET copied == copy_data_block_bytes(h[new.v].array_buffer_data.bytes, 0,
                                             h[this.v].array_buffer_data.bytes,
                                             first, new_len)
         IN IF ~copied.ok
            THEN [heap |-> h, res |-> Panic("assertion failed")]
            ELSE [heap |-> [h EXCEPT ![new.v].array_buffer_data = Some(copied.block)],
                  res |-> Ok(new)]

\* steps 17-27: the checks of the constructed value, then the copy.
\* bw are the borrow counts, the borrow of this taken at entry among them.
slice_finish(this, first, new_len, new, h, bw) ==
    IF ~as_object(new)
    THEN [heap |-> h,
          res |-> Throw("TypeError", "ArrayBuffer constructor returned non-object value")]
    ELSE IF ~as_array_buffer(new, h)
    THEN [heap |-> h,
          res |-> Throw("TypeError", "ArrayBuffer constructor returned invalid object")]
    ELSE IF is_detached_buffer(h[new.v])
    THEN [heap |-> h,
          res |-> Throw("TypeError", "ArrayBuffer constructor returned detached ArrayBuffer")]
    ELSE IF same_value(new, this)
    THEN [heap |-> h,
          res |-> Throw("TypeError", "New ArrayBuffer is the same as this ArrayBuffer")]
    ELSE IF ~can_borrow_mut(new.v, bw)
    THEN [heap |-> h, res |-> Panic("Object already borrowed")]
    ELSE IF h[new.v].array_buffer_byte_length < new_len
    THEN [heap |-> h, res |-> Throw("TypeError", "New ArrayBuffer length too small")]
    ELSE IF is_detached_buffer(h[this.v])
    THEN [heap |-> h,
          res |-> Throw("TypeError", "ArrayBuffer detached while ArrayBuffer.slice was running")]
    ELSE LET copied == copy_data_block_bytes(h[new.v].array_buffer_data.bytes, 0,
                                             h[this.v].array_buffer_data.bytes,
                                             first, new_len)
         IN IF ~copied.ok
            THEN [heap |-> h, res |-> Panic("assertion failed")]
            ELSE [heap |-> [h EXCEPT ![new.v].array_buffer_data = Some(copied.block)],
                  res |-> Ok(new)]

\* the frame of a slice call
IdleFrame ==
    [pc |-> "idle", this |-> Undefined, start |-> Undefined, end |-> Undefined,
     species |-> ArrayBufferCtor, len |-> 0, first |-> 0, new_len |-> 0,
     detachedThis |-> FALSE]

\* the call is suspended in a call-out
Suspend(f, h, bw) ==
    [done |-> FALSE, sl |-> f, heap |-> h, borrows |-> bw,
     ret |-> NoValue, res |-> Ok(Undefined)]

\* the call returns (or panics): obj_borrow is dropped
Return(f, h, bw, ret, res) ==
    [done |-> TRUE, sl |-> f, heap |-> h,
     borrows |-> [bw EXCEPT ![f.this.v] = @ - 1],
     ret |-> ret, res |-> res]

\* from step 17, with the value the constructor returned
slice_after_construct(f, new, h, bw) ==
    LET fin == slice_finish(f.this, f.first, f.new_len, new, h, bw)
    IN Return(f, fin.heap, bw, new, fin.res)

\* steps 11-16, with relativeEnd
slice_after_end(f, relative_end, h, bw) ==
    LET final == final_of(relative_end, f.len)
        f1 == [f EXCEPT !.new_len = new_len_of(f.first, final)]
        built == constructor(ArrayBufferCtor, Number(f1.new_len), h)
    IN IF f.species = ArrayBufferCtor
       THEN IF built.res.kind # "ok"
            THEN Return(f1, built.heap, bw, NoValue, built.res)
            ELSE slice_after_construct(f1, built.res.val, built.heap, bw)
       ELSE Suspend([f1 EXCEPT !.pc = "construct"], h, bw)

\* steps 7-10, with relativeStart
slice_after_start(f, relative_start, h, bw) ==
    LET f1 == [f EXCEPT !.first = first_of(relative_start, f.len)]
        relative_end == to_integer_or_infinity(f.end)
    IN IF f.end.t = "undefined"
       THEN slice_after_end(f1, Integer(f.len), h, bw)
       ELSE IF f.end.t = "thunk"
       THEN Suspend([f1 EXCEPT !.pc = "end"], h, bw)
       ELSE IF relative_end.res.kind # "ok"
       THEN Return(f1, h, bw, NoValue, relative_end.res)
       ELSE slice_after_end(f1, relative_end.rel, h, bw)

\* steps 5-6: obj_borrow is taken and len is read
slice_begin(this, start, end, species, h, bw) ==
    LET f == [IdleFrame EXCEPT !.pc = "start", !.this = this, !.start = start,
                               !.end = end, !.species = species,
                               !.len = h[this.v].array_buffer_byte_length]
        bw1 == [bw EXCEPT ![this.v] = @ + 1]
        relative_start == to_integer_or_infinity(start)
    IN IF start.t = "thunk"
       THEN Suspend(f, h, bw1)
       ELSE IF relative_start.res.kind # "ok"
       THEN Return(f, h, bw1, NoValue, relative_start.res)
       ELSE slice_after_start(f, relative_start.rel, h, bw1)

(***************************************************************************)
(* The inputs of the calls.                                                *)
(***************************************************************************)
\* the values written by SetValueInBuffer
WriteValues == {Number(1), SymbolValue}

UsedRefs(h) == {BufferRef(b) : b \in UsedIds(h)}
ThisValues(h) == {Undefined, OrdinaryObj} \cup UsedRefs(h)
ViewArgs(h) == {Undefined, Number(0)} \cup HostObjects \cup UsedRefs(h)
\* start and end of a call that runs no user code
StartArgs == {Number(i) : i \in RelInts} \cup {NegInfinity, PosInfinity, SymbolValue}
EndArgs == StartArgs \cup {Undefined}
\* <<start, end, species>> of the calls with the %ArrayBuffer% species and
\* arguments that are no objects: no user code runs
DefaultCalls == {<<start, end, ArrayBufferCtor>> : start \in StartArgs, end \in EndArgs}
\* <<start, end, species>> of the calls that run user code: an argument that
\* is an object with a valueOf, or a species constructor of the user's
UserCodeCalls ==
    {<<Number(0), Undefined, UserCtor>>,
     <<Number(1), Number(MaxLen), UserCtor>>,
     <<Thunk(0), Undefined, ArrayBufferCtor>>,
     <<Number(0), Thunk(1), ArrayBufferCtor>>,
     <<Thunk(1), Thunk(MaxLen), UserCtor>>}
\* the calls the host makes between its other operations
SliceCalls ==
    {<<Number(0), Undefined, ArrayBufferCtor>>,
     <<Number(1), Number(MaxLen), ArrayBufferCtor>>,
     <<Number(0 - 1), PosInfinity, ArrayBufferCtor>>,
     <<SymbolValue, Undefined, ArrayBufferCtor>>}
        \cup UserCodeCalls
ReturnValues(h) == {Undefined, OrdinaryObj} \cup UsedRefs(h)
Flags == {NoFlag, Flag(TRUE), Flag(FALSE)}
DetachKeys == {Undefined, OtherKey}

\* the record of a completed call
Call(op, this, a1, a2, a3, ret, det, res) ==
    [op |-> op, this |-> this, a1 |-> a1, a2 |-> a2, a3 |-> a3,
     ret |-> ret, det |-> det, res |-> res]
NoCall == Call("none", Undefined, Undefined, Undefined, Undefined, Undefined, FALSE,
               Ok(Undefined))

TypeOK ==
    /\ DOMAIN heap = BufIds
    /\ DOMAIN borrows = BufIds
    /\ aborted \in BOOLEAN
    /\ sl.pc \in {"idle", "start", "end", "construct"}

Init ==
    /\ heap = [b \in BufIds |-> Free]
    /\ borrows = [b \in BufIds |-> 0]
    /\ sl = IdleFrame
    /\ last = NoCall
    /\ aborted = FALSE

\* no call is in flight and the host has taken the completion of its last
\* call: it may make the next one
AtTopLevel == ~aborted /\ sl.pc = "idle" /\ last = NoCall
\* a call-out of slice is running user code
InCallOut == ~aborted /\ sl.pc \in {"start", "end", "construct"}

(***************************************************************************)
(* new ArrayBuffer(length), or ArrayBuffer(length) without new             *)
(***************************************************************************)
Construct ==
    /\ AtTopLevel
    /\ HasFree(heap)
    /\ \E new_target \in {Undefined, ArrayBufferCtor},
          length \in {Undefined, Number(0 - 1)} \cup {Number(n) : n \in Lens} :
          LET out == constructor(new_target, length, heap)
          IN /\ heap' = out.heap
             /\ last' = Call("constructor", new_target, length, Undefined, Undefined,
                             Undefined, FALSE, out.res)
    /\ UNCHANGED <<borrows, sl, aborted>>

(***************************************************************************)
(* this.byteLength                                                         *)
(***************************************************************************)
ByteLength ==
    /\ AtTopLevel
    /\ \E this \in ThisValues(heap) :
          last' = Call("byteLength", this, Undefined, Undefined, Undefined,
                       Undefined, FALSE, byte_length(this, heap))
    /\ UNCHANGED <<heap, borrows, sl, aborted>>

(***************************************************************************)
(* ArrayBuffer.isView(arg)                                                 *)
(***************************************************************************)
IsView ==
    /\ AtTopLevel
    /\ \E arg \in ViewArgs(heap) :
          last' = Call("isView", Undefined, arg, Undefined, Undefined,
                       Undefined, FALSE, is_view(arg))
    /\ UNCHANGED <<heap, borrows, sl, aborted>>

(***************************************************************************)
(* DetachArrayBuffer(buffer, key), by the host                             *)
(***************************************************************************)
Detach ==
    /\ AtTopLevel
    /\ \E b \in UsedIds(heap), key \in DetachKeys :
          LET out == detach_array_buffer(b, key, heap)
          IN /\ heap' = out.heap
             /\ last' = Call("detach", BufferRef(b), key, Undefined, Undefined,
                             Undefined, FALSE, out.res)
    /\ UNCHANGED <<borrows, sl, aborted>>

(***************************************************************************)
(* buffer.get_value_from_buffer(byte_index, t, _, _, is_little_endian)     *)
(***************************************************************************)
GetValueFromBuffer ==
    /\ AtTopLevel
    /\ \E b \in UsedIds(heap), byte_index \in Lens, t \in SmallTypes, le \in Flags :
          LET res == get_value_from_buffer(heap[b], byte_index, t, le)
          IN /\ last' = Call("getValue", BufferRef(b), Number(byte_index), Undefined,
                             Undefined, Undefined, FALSE, res)
             /\ aborted' = (res.kind = "panic")
    /\ UNCHANGED <<heap, borrows, sl>>

(***************************************************************************)
(* buffer.set_value_in_buffer(byte_index, t, value, _, is_little_endian)   *)
(***************************************************************************)
SetValueInBuffer ==
    /\ AtTopLevel
    /\ \E b \in UsedIds(heap), byte_index \in Lens, t \in SmallTypes,
          value \in WriteValues, le \in Flags :
          LET out == set_value_in_buffer(heap[b], byte_index, t, value, le)
          IN /\ heap' = [heap EXCEPT ![b] = out.buf]
             /\ last' = Call("setValue", BufferRef(b), Number(byte_index), value,
                             Undefined, Undefined, FALSE, out.res)
             /\ aborted' = (out.res.kind = "panic")
    /\ UNCHANGED <<borrows, sl>>

(***************************************************************************)
(* src.clone_array_buffer(src_byte_offset, src_length, %ArrayBuffer%)      *)
(***************************************************************************)
CloneArrayBuffer ==
    /\ AtTopLevel
    /\ HasFree(heap)
    /\ \E b \in UsedIds(heap), src_byte_offset \in Lens, src_length \in Lens :
          LET out == clone_array_buffer(heap[b], src_byte_offset, src_length, heap)
          IN /\ heap' = out.heap
             /\ last' = Call("clone", BufferRef(b), Number(src_byte_offset),
                             Number(src_length), Undefined, Undefined, FALSE, out.res)
             /\ aborted' = (out.res.kind = "panic")
    /\ UNCHANGED <<borrows, sl>>

(***************************************************************************)
(* this.slice(start, end), with the species constructor the lookup finds   *)
(***************************************************************************)
SliceRecord(f, ret, res) ==
    Call("slice", f.this, f.start, f.end, f.species, ret, f.detachedThis, res)

\* the state after a run of slice up to its next call-out or its completion
Resume(out) ==
    /\ heap' = out.heap
    /\ borrows' = out.borrows
    /\ sl' = IF out.done THEN IdleFrame ELSE out.sl
    /\ last' = IF out.done THEN SliceRecord(out.sl, out.ret, out.res) ELSE last
    /\ aborted' = (out.done /\ out.res.kind = "panic")

SliceWith(calls) ==
    /\ AtTopLevel
    /\ \E this \in ThisValues(heap), call \in calls :
          /\ call[3] = ArrayBufferCtor => HasFree(heap)
          /\ LET start == call[1]
                 end == call[2]
                 species == call[3]
                 entry == slice_entry(this, heap)
             IN IF entry.kind # "ok"
                THEN /\ last' = Call("slice", this, start, end, species, NoValue, FALSE, entry)
                     /\ UNCHANGED <<heap, borrows, sl, aborted>>
                ELSE Resume(slice_begin(this, start, end, species, heap, borrows))

Slice == SliceWith(SliceCalls)

(***************************************************************************)
(* User code running in a call-out of slice.                               *)
(***************************************************************************)
\* valueOf returns its number
ReturnFromValueOf ==
    /\ InCallOut
    /\ sl.pc \in {"start", "end"}
    /\ IF sl.pc = "start"
       THEN Resume(slice_after_start(sl, Integer(sl.start.v), heap, borrows))
       ELSE Resume(slice_after_end(sl, Integer(sl.end.v), heap, borrows))

\* the species constructor returns a value
ReturnFromConstruct ==
    /\ InCallOut
    /\ sl.pc = "construct"
    /\ \E new \in ReturnValues(heap) :
          Resume(slice_after_construct(sl, new, heap, borrows))

\* the user code throws: slice returns the error
UserThrow ==
    /\ InCallOut
    /\ Resume(Return(sl, heap, borrows, NoValue, Throw("Error", "thrown by user code")))

\* the user code makes a buffer: new ArrayBuffer(length)
UserAllocate ==
    /\ InCallOut
    /\ sl.pc = "construct"
    /\ HasFree(heap)
    /\ \E length \in Lens :
          heap' = constructor(ArrayBufferCtor, Number(length), heap).heap
    /\ UNCHANGED <<borrows, sl, last, aborted>>

\* the user code detaches a buffer: the detach needs the object's cell
\* mutably, and panics while a borrow of it is live
UserDetach ==
    /\ InCallOut
    /\ \E b \in UsedIds(heap) :
          LET f == [sl EXCEPT !.detachedThis =
                                  @ \/ (sl.pc = "construct" /\ BufferRef(b) = sl.this)]
          IN IF ~can_borrow_mut(b, borrows)
             THEN Resume(Return(f, heap, borrows, NoValue,
                                Panic("Object already borrowed")))
             ELSE /\ heap' = detach_array_buffer(b, Undefined, heap).heap
                  /\ sl' = f
                  /\ UNCHANGED <<borrows, last, aborted>>

(***************************************************************************)
(* The host takes the completion of the call that returned.                *)
(***************************************************************************)
TakeCompletion ==
    /\ ~aborted
    /\ sl.pc = "idle"
    /\ last # NoCall
    /\ last' = NoCall
    /\ UNCHANGED <<heap, borrows, sl, aborted>>

Next ==
    \/ TakeCompletion
    \/ Construct
    \/ ByteLength
    \/ IsView
    \/ Detach
    \/ GetValueFromBuffer
    \/ SetValueInBuffer
    \/ CloneArrayBuffer
    \/ Slice
    \/ ReturnFromValueOf
    \/ ReturnFromConstruct
    \/ UserThrow
    \/ UserAllocate
    \/ UserDetach

Spec == Init /\ [][Next]_vars

(***************************************************************************)
(* slice as a function of the source buffer, start and end: the heap holds *)
(* one buffer of any length and bytes, attached or detached, and the host  *)
(* calls slice with the %ArrayBuffer% species and arguments that are no    *)
(* objects.                                                                *)
(***************************************************************************)
Blocks == UNION {[1..n -> 0..MaxByte] : n \in Lens}

InitSlice ==
    /\ \E block \in Blocks, attached \in BOOLEAN :
          heap = [b \in BufIds |->
                    IF b = 1
                    THEN ArrayBuffer(IF attached THEN Some(block) ELSE None,
                                     Len(block), Undefined)
                    ELSE Free]
    /\ borrows = [b \in BufIds |-> 0]
    /\ sl = IdleFrame
    /\ last = NoCall
    /\ aborted = FALSE

SliceDefault == SliceWith(DefaultCalls)

NextSlice == SliceDefault

SpecSlice == InitSlice /\ [][NextSlice]_vars

(***************************************************************************)
(* allocate as a function of the byte length: the heap holds one buffer,   *)
(* and allocate is called with the %ArrayBuffer% constructor and a length  *)
(* that is small, or near 2^31, or on either side of 2^33.                 *)
(***************************************************************************)
AllocationLengths ==
    {usize(0, n) : n \in Lens}
        \cup {usize(32768, 0), usize(131071, 65535), usize(131072, 0),
              usize(131072, 1), usize(131073, 0), usize(2147483647, 65535)}

Allocate ==
    /\ AtTopLevel
    /\ HasFree(heap)
    /\ \E u \in AllocationLengths :
          LET out == allocate_usize(u, heap)
          IN /\ heap' = out.heap
             /\ last' = Call("allocate", ArrayBufferCtor, [t |-> "usize", v |-> u],
                             Undefined, Undefined, Undefined, FALSE, out.res)
    /\ UNCHANGED <<borrows, sl, aborted>>

NextAllocate == Allocate

SpecAllocate == InitSlice /\ [][NextAllocate]_vars

(***************************************************************************)
(* The codec as functions of the element type, the value and the flag:     *)
(* numeric_to_raw_bytes on integers on both sides of the ends of every     *)
(* range, raw_bytes_to_numeric on the bytes it made, the 64-bit fallbacks  *)
(* on any BigInt, and is_no_tear_configuration.                            *)
(***************************************************************************)
TypeValue(t) == [t |-> "type", v |-> t]
Boolean(b) == [t |-> "boolean", v |-> IF b THEN 1 ELSE 0]
Bytes(bytes) == [t |-> "bytes", v |-> bytes]
OrderValue(order) == [t |-> "order", v |-> order]

\* 2^k, 2^k - 1 and 2^k + 1 (k >= 8) as magnitudes
power_of_two(k) == [i \in 1..(k \div 8 + 1) |-> IF i = k \div 8 + 1 THEN pow2(k % 8) ELSE 0]
power_of_two_minus_one(k) ==
    trim([i \in 1..(k \div 8 + 1) |-> IF i = k \div 8 + 1 THEN pow2(k % 8) - 1 ELSE 255])
power_of_two_plus_one(k) == [power_of_two(k) EXCEPT ![1] = 1]
AroundPowerOfTwo(k) ==
    {Wide(neg, mag) : neg \in BOOLEAN,
                      mag \in {power_of_two(k), power_of_two_minus_one(k),
                               power_of_two_plus_one(k)}}

SmallInts ==
    {0 - 65537, 0 - 32769, 0 - 32768, 0 - 257, 0 - 129, 0 - 128, 0 - 2, 0 - 1,
     0, 1, 2, 127, 128, 129, 255, 256, 257, 32767, 32768, 65535, 65536, 16909060}
\* the integers a Number holds that are no i32
RationalInts ==
    AroundPowerOfTwo(32) \cup {Wide(neg, power_of_two(k)) : neg \in BOOLEAN, k \in {31, 63, 64}}
        \cup {Wide(FALSE, power_of_two_plus_one(31)), Wide(TRUE, power_of_two_plus_one(31))}
BigInts ==
    {wide_of(n) : n \in SmallInts}
        \cup AroundPowerOfTwo(31) \cup AroundPowerOfTwo(32)
        \cup AroundPowerOfTwo(63) \cup AroundPowerOfTwo(64)

\* the values written as an element of type t
CodecValues(t) ==
    CASE t \in SmallTypes ->
            {Number(n) : n \in SmallInts} \cup {SymbolValue, BigInt(wide_of(1))}
      [] t \in {"Int32Array", "Uint32Array"} ->
            {Number(n) : n \in SmallInts} \cup {Rational(x) : x \in RationalInts}
                \cup {SymbolValue, BigInt(wide_of(1))}
      [] t \in BigIntTypes -> {BigInt(x) : x \in BigInts} \cup {SymbolValue, Undefined}
      [] t \in FloatTypes ->
            {Number(n) : n \in SmallInts \ {16909060}}
                \cup {PosInfinity, NegInfinity, SymbolValue}

NumericToRawBytes ==
    /\ AtTopLevel
    /\ \E t \in ElementTypes, is_little_endian \in BOOLEAN :
          \E value \in CodecValues(t) :
             LET raw == numeric_to_raw_bytes(t, value, is_little_endian)
             IN last' = Call("numericToRawBytes", TypeValue(t), value,
                             Boolean(is_little_endian), Undefined, Bytes(raw.bytes),
                             FALSE, raw.res)
    /\ UNCHANGED <<heap, borrows, sl, aborted>>

\* the bytes numeric_to_raw_bytes made, read as an element of the same type
RawBytesToNumeric ==
    /\ ~aborted
    /\ last.op = "numericToRawBytes"
    /\ last.res.kind = "ok"
    /\ \E is_little_endian \in BOOLEAN :
          last' = Call("rawBytesToNumeric", last.this, last.a1, last.a2,
                       Boolean(is_little_endian), last.ret, FALSE,
                       Ok(raw_bytes_to_numeric(last.this.v, last.ret.v, is_little_endian)))
    /\ UNCHANGED <<heap, borrows, sl, aborted>>

\* the conversion of the coerced BigInt to 64 bits, on any BigInt
BigIntTo64 ==
    /\ AtTopLevel
    /\ \E t \in BigIntTypes, big_int \in BigInts :
          last' = Call("bigIntTo64", TypeValue(t), BigInt(big_int), Undefined, Undefined,
                       Undefined, FALSE,
                       Ok(BigInt(IF t = "BigInt64Array" THEN big_int_to_i64(big_int)
                                 ELSE big_int_to_u64(big_int))))
    /\ UNCHANGED <<heap, borrows, sl, aborted>>

IsNoTearConfiguration ==
    /\ AtTopLevel
    /\ \E t \in ElementTypes, order \in SharedMemoryOrder :
          last' = Call("isNoTearConfiguration", TypeValue(t), OrderValue(order), Undefined,
                       Undefined, Undefined, FALSE,
                       Ok(Boolean(is_no_tear_configuration(t, order))))
    /\ UNCHANGED <<heap, borrows, sl, aborted>>

NextCodec ==
    \/ NumericToRawBytes
    \/ RawBytesToNumeric
    \/ BigIntTo64
    \/ IsNoTearConfiguration

SpecCodec == Init /\ [][NextCodec]_vars

(***************************************************************************)
(* set_value_in_buffer as a function of the buffer, the index, the element *)
(* type, the value and the flag: the heap holds one buffer of up to        *)
(* MaxBlockLen bytes, all 0 or all different.                              *)
(***************************************************************************)
FlagValue(flag) == [t |-> "flag", v |-> flag]
Ramp(n) == [i \in 1..n |-> 160 + i]
SetBlocks == {Zeros(n) : n \in 0..MaxBlockLen} \cup {Ramp(n) : n \in 0..MaxBlockLen}
SetInts == {0 - 2, 1, 258, 16909060}

\* the values set as an element of type t
SetValues(t) ==
    CASE t \in SmallTypes ->
            {Number(n) : n \in SetInts} \cup {SymbolValue, BigInt(wide_of(1))}
      [] t \in {"Int32Array", "Uint32Array"} ->
            {Number(n) : n \in SetInts}
                \cup {Rational(Wide(FALSE, power_of_two_plus_one(32))), SymbolValue}
      [] t \in BigIntTypes ->
            {BigInt(wide_of(n)) : n \in SetInts}
                \cup {BigInt(Wide(TRUE, power_of_two_plus_one(63))), SymbolValue, Undefined}
      [] t \in FloatTypes ->
            {Number(n) : n \in SetInts \ {16909060}} \cup {NegInfinity, SymbolValue}

InitSetValue ==
    /\ \E block \in SetBlocks, attached \in BOOLEAN :
          heap = [b \in BufIds |->
                    IF b = 1
                    THEN ArrayBuffer(IF attached THEN Some(block) ELSE None,
                                     Len(block), Undefined)
                    ELSE Free]
    /\ borrows = [b \in BufIds |-> 0]
    /\ sl = IdleFrame
    /\ last = NoCall
    /\ aborted = FALSE

\* buffer.set_value_in_buffer(byte_index, t, value, _, is_little_endian)
SetValueInBufferOf ==
    /\ AtTopLevel
    /\ \E b \in UsedIds(heap), byte_index \in 0..MaxBlockLen, t \in ElementTypes,
          is_little_endian \in Flags :
          \E value \in SetValues(t) :
             LET out == set_value_in_buffer(heap[b], byte_index, t, value, is_little_endian)
             IN /\ heap' = [heap EXCEPT ![b] = out.buf]
                /\ last' = Call("setValueInBuffer", BufferRef(b), Number(byte_index), value,
                                TypeValue(t), FlagValue(is_little_endian), FALSE, out.res)
                /\ aborted' = (out.res.kind = "panic")
    /\ UNCHANGED <<borrows, sl>>

NextSetValue == SetValueInBufferOf

SpecSetValue == InitSetValue /\ [][NextSetValue]_vars

(***************************************************************************)
(* copy_data_block_bytes as a function of the two blocks, the two indices  *)
(* and the count: object 1 holds to_block and object 2 from_block.         *)
(***************************************************************************)
\* the blocks copied into: bytes that no source block holds
ToBlocks == {[i \in 1..n |-> 100 + i] : n \in Lens}
CopyIndices == 0..(MaxLen + 1)

InitCopy ==
    /\ \E to_block \in ToBlocks, from_block \in Blocks :
          heap = [b \in BufIds |->
                    IF b = 1 THEN ArrayBuffer(Some(to_block), Len(to_block), Undefined)
                    ELSE IF b = 2
                    THEN ArrayBuffer(Some(from_block), Len(from_block), Undefined)
                    ELSE Free]
    /\ borrows = [b \in BufIds |-> 0]
    /\ sl = IdleFrame
    /\ last = NoCall
    /\ aborted = FALSE

CopyDataBlockBytes ==
    /\ AtTopLevel
    /\ \E toIndex \in CopyIndices, fromIndex \in CopyIndices, count \in CopyIndices :
          LET copied == copy_data_block_bytes(heap[1].array_buffer_data.bytes, toIndex,
                                              heap[2].array_buffer_data.bytes, fromIndex,
                                              count)
          IN /\ heap' = [heap EXCEPT ![1].array_buffer_data = Some(copied.block)]
             /\ last' = Call("copyDataBlockBytes", BufferRef(1), Number(toIndex),
                             Number(fromIndex), Number(count), Number(copied.stores), FALSE,
                             IF copied.ok THEN Ok(Undefined) ELSE Panic("assertion failed"))
             /\ aborted' = ~copied.ok
    /\ UNCHANGED <<borrows, sl>>

NextCopy == CopyDataBlockBytes

SpecCopy == InitCopy /\ [][NextCopy]_vars

(***************************************************************************)
(* Properties.                                                             *)
(***************************************************************************)
Attached(b) == heap[b].used /\ heap[b].array_buffer_data.present
Detached(b) == heap[b].used /\ ~heap[b].array_buffer_data.present
BytesOf(b) == heap[b].array_buffer_data.bytes

\* the relative index of the claim: -infinity -> 0, negative i -> max(n + i, 0),
\* non-negative i -> min(i, n), +infinity -> n, undefined -> n
Clamp(arg, n) ==
    CASE arg = NegInfinity -> 0
      [] arg = PosInfinity -> n
      [] arg = Undefined -> n
      [] arg.t = "number" /\ arg.v < 0 -> IF n + arg.v > 0 THEN n + arg.v ELSE 0
      [] arg.t = "number" /\ arg.v >= 0 -> IF arg.v < n THEN arg.v ELSE n

IndexArgs == {Number(i) : i \in RelInts} \cup {NegInfinity, PosInfinity}

\* C1: slice with the %ArrayBuffer% species on an attached buffer of length n
\* returns a new buffer of max(final - first, 0) bytes, first and final being
\* start and end clamped to the buffer (an undefined end is n), and byte k of
\* it is byte first + k of the source.
C1_SliceLengthAndBytes ==
    (/\ last.op = "slice"
     /\ last.a3 = ArrayBufferCtor
     /\ last.this.t = "buffer"
     /\ Attached(last.this.v)
     /\ last.a1 \in IndexArgs
     /\ last.a2 \in IndexArgs \cup {Undefined})
    => LET n == heap[last.this.v].array_buffer_byte_length
           first == Clamp(last.a1, n)
           final == Clamp(last.a2, n)
           newLen == IF final - first > 0 THEN final - first ELSE 0
           new == last.res.val
       IN /\ last.res.kind = "ok"
          /\ new.t = "buffer"
          /\ new # last.this
          /\ Attached(new.v)
          /\ heap[new.v].array_buffer_byte_length = newLen
          /\ Len(BytesOf(new.v)) = newLen
          /\ \A k \in 1..newLen : BytesOf(new.v)[k] = BytesOf(last.this.v)[first + k]

\* a slice from a negative start to the end copied two different bytes
C1_Witness ==
    /\ last.op = "slice"
    /\ last.a3 = ArrayBufferCtor
    /\ last.a1 = Number(0 - 2)
    /\ last.a2 = Undefined
    /\ last.res.kind = "ok"
    /\ BytesOf(last.res.val.v) = <<1, 2>>
    /\ BytesOf(last.this.v) = <<1, 2>>

\* C2: a slice call whose species constructor detached the source buffer
\* returns the TypeError of the re-check made after the construction.
C2_DetachingSpeciesIsTypeError ==
    (last.op = "slice" /\ last.det)
    => last.res = Throw("TypeError",
                        "ArrayBuffer detached while ArrayBuffer.slice was running")

\* C3: while a call-out of slice runs user code, slice holds no borrow of the
\* source object.
C3_NoBorrowAcrossCallOut ==
    sl.pc \in {"start", "end", "construct"} => borrows[sl.this.v] = 0

\* the TypeError slice is to return for the value new of the species
\* constructor, "" when the value is good: the checks in their order
InvalidNewMessage(new, this, new_len, h) ==
    IF ~(new.t \in {"object", "buffer", "thunk", "function"})
    THEN "ArrayBuffer constructor returned non-object value"
    ELSE IF new.t # "buffer"
    THEN "ArrayBuffer constructor returned invalid object"
    ELSE IF ~h[new.v].array_buffer_data.present
    THEN "ArrayBuffer constructor returned detached ArrayBuffer"
    ELSE IF new = this
    THEN "New ArrayBuffer is the same as this ArrayBuffer"
    ELSE IF h[new.v].array_buffer_byte_length < new_len
    THEN "New ArrayBuffer length too small"
    ELSE ""

\* C4: when the species constructor returns a value that is not an
\* ArrayBuffer, a detached ArrayBuffer, the this value or an ArrayBuffer
\* shorter than newLen, slice returns the TypeError of the first of these
\* checks that fails and no byte of any buffer changes.
C4_InvalidNewIsTypeError ==
    [][(sl.pc = "construct" /\ last'.op = "slice" /\ last'.ret # NoValue)
       => LET message == InvalidNewMessage(last'.ret, sl.this, sl.new_len, heap)
          IN message # "" => (last'.res = Throw("TypeError", message) /\ heap' = heap)]_vars

\* the constructor returned a detached buffer that is also too short
C4_Witness ==
    /\ last.op = "slice"
    /\ last.a1 = Number(0)
    /\ last.a2 = Undefined
    /\ last.a3 = UserCtor
    /\ last.ret.t = "buffer"
    /\ Detached(last.ret.v)
    /\ heap[last.ret.v].array_buffer_byte_length
          < heap[last.this.v].array_buffer_byte_length
    /\ last.res = Throw("TypeError", "ArrayBuffer constructor returned detached ArrayBuffer")

\* the TypeError of slice for a this value that is no attached ArrayBuffer
InvalidThisMessage(this, h) ==
    IF ~(this.t \in {"object", "buffer", "thunk", "function"})
    THEN "ArrayBuffer.slice called with non-object value"
    ELSE IF this.t # "buffer"
    THEN "ArrayBuffer.slice called with invalid object"
    ELSE IF ~h[this.v].array_buffer_data.present
    THEN "ArrayBuffer.slice called with detached buffer"
    ELSE ""

\* C5: slice on a this value that is no object, no ArrayBuffer or a detached
\* ArrayBuffer returns its TypeError at once: no buffer is made, and a call
\* that reaches a call-out into user code was made on an attached ArrayBuffer.
C5_InvalidThisIsTypeError ==
    [][/\ (sl.pc = "idle" /\ last = NoCall /\ last'.op = "slice"
           /\ InvalidThisMessage(last'.this, heap) # "")
          => /\ last'.res = Throw("TypeError", InvalidThisMessage(last'.this, heap))
             /\ heap' = heap
             /\ borrows' = borrows
             /\ sl' = sl
       /\ (sl.pc = "idle" /\ sl'.pc # "idle")
          => InvalidThisMessage(sl'.this, heap) = ""]_vars

\* slice on a detached buffer, with a start whose valueOf is user code
C5_Witness ==
    /\ last.op = "slice"
    /\ last.this.t = "buffer"
    /\ Detached(last.this.v)
    /\ last.a1.t = "thunk"
    /\ last.res = Throw("TypeError", "ArrayBuffer.slice called with detached buffer")

\* C6: the byteLength getter returns 0 for a detached ArrayBuffer, the
\* byte-length field for an attached one and a TypeError for any other this
\* value, and changes no buffer.
C6_ByteLengthGetter ==
    [][(last = NoCall /\ last'.op = "byteLength")
       => LET this == last'.this
          IN /\ heap' = heap
             /\ IF this.t # "buffer"
                THEN last'.res.kind = "TypeError"
                ELSE IF ~heap[this.v].array_buffer_data.present
                THEN last'.res = Ok(Number(0))
                ELSE last'.res = Ok(Number(heap[this.v].array_buffer_byte_length))]_vars

\* the getter on a detached buffer whose byte-length field is not 0
C6_Witness ==
    /\ last.op = "byteLength"
    /\ last.this.t = "buffer"
    /\ Detached(last.this.v)
    /\ heap[last.this.v].array_buffer_byte_length > 0
    /\ last.res = Ok(Number(0))

\* C7: every buffer has the detach key undefined; a detach with another key
\* is a TypeError and changes nothing, a detach with the key makes the block
\* absent.
C7_DetachKey ==
    /\ [](\A b \in BufIds : heap[b].used => heap[b].array_buffer_detach_key = Undefined)
    /\ [][(last = NoCall /\ last'.op = "detach")
          => LET b == last'.this.v
             IN IF last'.a1 # Undefined
                THEN last'.res.kind = "TypeError" /\ heap' = heap
                ELSE last'.res.kind = "ok" /\ ~heap'[b].array_buffer_data.present]_vars

\* a detach with the wrong key left an attached buffer and its bytes
C7_Witness ==
    /\ last.op = "detach"
    /\ last.a1 = OtherKey
    /\ last.res.kind = "TypeError"
    /\ Attached(last.this.v)
    /\ BytesOf(last.this.v) = <<1, 0>>

\* C8: once the block of an ArrayBuffer is absent, no step makes it present.
C8_DetachIsOneWay ==
    [][\A b \in BufIds :
          (heap[b].used /\ ~heap[b].array_buffer_data.present)
          => ~heap'[b].array_buffer_data.present]_vars

\* a clone was asked of a detached buffer, and made its target
C8_Witness ==
    /\ last.op = "clone"
    /\ last.this = BufferRef(1)
    /\ Detached(1)
    /\ Attached(2)

\* C9: the byte-length field of an ArrayBuffer never changes: it is the length
\* the constructor was given, and the getter of an attached buffer returns it.
C9_ByteLengthFieldConstant ==
    /\ [][\A b \in BufIds :
            heap[b].used
            => heap'[b].array_buffer_byte_length = heap[b].array_buffer_byte_length]_vars
    /\ []((last.op = "constructor" /\ last.res.kind = "ok")
          => heap[last.res.val.v].array_buffer_byte_length
                = (IF last.a1 = Undefined THEN 0 ELSE last.a1.v))
    /\ []((last.op = "byteLength" /\ last.this.t = "buffer" /\ Attached(last.this.v))
          => last.res = Ok(Number(heap[last.this.v].array_buffer_byte_length)))

\* slice copied one byte into a longer buffer the species constructor gave
C9_Witness ==
    /\ last.op = "slice"
    /\ last.a3 = UserCtor
    /\ last.a1 = Number(1)
    /\ last.res.kind = "ok"
    /\ heap[last.this.v].array_buffer_byte_length = 2
    /\ heap[last.res.val.v].array_buffer_byte_length = 2
    /\ BytesOf(last.res.val.v) = <<1, 0>>

\* C10: the block of an attached ArrayBuffer has as many bytes as its
\* byte-length field says.
C10_BlockLengthIsByteLength ==
    \A b \in BufIds :
        Attached(b) => Len(BytesOf(b)) = heap[b].array_buffer_byte_length

\* a clone of the last byte of a written buffer
C10_Witness ==
    /\ last.op = "clone"
    /\ last.res.kind = "ok"
    /\ last.a1 = Number(1)
    /\ heap[last.res.val.v].array_buffer_byte_length = 1
    /\ BytesOf(last.res.val.v) = <<1>>

\* C11: allocate(byteLength) with byteLength <= 2^33 returns a buffer that was
\* not on the heap before, attached, whose block is byteLength zero bytes,
\* whose byte-length field is byteLength and whose detach key is undefined,
\* and leaves the other objects alone; with byteLength > 2^33 it returns a
\* RangeError and the heap holds no new ArrayBuffer data.
C11_AllocateUpToLimit ==
    [][(last'.op = "allocate" /\ last.op = "none")
       => LET u == last'.a1.v
              res == last'.res
              b == res.val.v
          IN IF u.hi < 131072 \/ (u.hi = 131072 /\ u.lo = 0)
             THEN /\ res.kind = "ok"
                  /\ res.val.t = "buffer"
                  /\ ~heap[b].used
                  /\ heap'[b].used
                  /\ heap'[b].array_buffer_data.present
                  /\ heap'[b].array_buffer_detach_key = Undefined
                  /\ \A c \in BufIds \ {b} : heap'[c] = heap[c]
                  /\ IF u.hi = 0
                     THEN /\ heap'[b].array_buffer_byte_length = u.lo
                          /\ Len(heap'[b].array_buffer_data.bytes) = u.lo
                          /\ \A i \in 1..u.lo : heap'[b].array_buffer_data.bytes[i] = 0
                     ELSE /\ heap'[b].array_buffer_byte_length = u
                          /\ heap'[b].array_buffer_data.bytes = [fill |-> 0, len |-> u]
             ELSE /\ res.kind = "RangeError"
                  /\ heap' = heap]_vars

\* a buffer of exactly 2^33 bytes was allocated next to a buffer of two bytes
C11_Witness ==
    /\ last.op = "allocate"
    /\ last.a1.v = usize(131072, 0)
    /\ last.res = Ok(BufferRef(2))
    /\ heap[2].array_buffer_data = Some([fill |-> 0, len |-> usize(131072, 0)])
    /\ heap[2].array_buffer_byte_length = usize(131072, 0)
    /\ heap[1].array_buffer_data = Some(<<1, 2>>)

\* C12: clone_array_buffer on a source buffer that is detached returns a
\* TypeError.
C12_CloneDetachedIsTypeError ==
    (last.op = "clone" /\ Detached(last.this.v)) => last.res.kind = "TypeError"

\* the reduction of the claims: the y of lo..hi that differs from x by a
\* multiple of modulus
Reduce(x, lo, hi, modulus) == CHOOSE y \in lo..hi : (x - y) % modulus = 0

\* 256^width - m for the width bytes m, not all 0: the subtraction with borrow
RECURSIVE SubtractFromPower(_, _)
SubtractFromPower(m, borrow) ==
    IF m = <<>> THEN <<>>
    ELSE <<(256 - m[1] - borrow) % 256>>
             \o SubtractFromPower(Tail(m), IF m[1] + borrow > 0 THEN 1 ELSE 0)

\* x modulo 256^width, in 0 .. 256^width - 1
ReduceUnsigned(x, width) ==
    LET m == low_digits(x.mag, width)
    IN IF ~x.neg \/ m = [i \in 1..width |-> 0]
       THEN Wide(FALSE, trim(m))
       ELSE Wide(FALSE, trim(SubtractFromPower(m, 0)))
\* x modulo 256^width, in -256^width / 2 .. 256^width / 2 - 1
ReduceSigned(x, width) ==
    LET u == ReduceUnsigned(x, width)
    IN IF Len(u.mag) = width /\ u.mag[width] >= 128
       THEN Wide(TRUE, trim(SubtractFromPower(u.mag, 0)))
       ELSE u

\* canonicalize_T(x) of the claim, for the types of one and two bytes (on the
\* integers of the model) and for those of four and eight (on wide integers)
CanonicalizeSmall(t, x) ==
    CASE t = "Int8Array" -> Reduce(x, 0 - 128, 127, 256)
      [] t = "Uint8Array" -> Reduce(x, 0, 255, 256)
      [] t = "Uint8ClampedArray" -> IF x < 0 THEN 0 ELSE IF x > 255 THEN 255 ELSE x
      [] t = "Int16Array" -> Reduce(x, 0 - 32768, 32767, 65536)
      [] t = "Uint16Array" -> Reduce(x, 0, 65535, 65536)
CanonicalizeWide(t, x) ==
    CASE t = "Int32Array" -> ReduceSigned(x, 4)
      [] t = "Uint32Array" -> ReduceUnsigned(x, 4)
      [] t = "BigInt64Array" -> ReduceSigned(x, 8)
      [] t = "BigUint64Array" -> ReduceUnsigned(x, 8)

\* x is in the range of the type of width bytes
InUnsignedRange(x, width) == ~x.neg /\ Len(x.mag) <= width
InSignedRange(x, width) ==
    \/ Len(x.mag) < width
    \/ Len(x.mag) = width /\ x.mag[width] < 128
    \/ x.neg /\ x.mag = [i \in 1..width |-> IF i = width THEN 128 ELSE 0]
InRangeWide(t, x) ==
    IF t \in {"Int32Array", "BigInt64Array"}
    THEN InSignedRange(x, element_size(t))
    ELSE InUnsignedRange(x, element_size(t))

\* C14: for every integer element type T, flag L and integer x,
\* raw_bytes_to_numeric(T, numeric_to_raw_bytes(T, x, L), L) is x reduced modulo
\* 2^width into the signed or unsigned range of T (clamped to 0..255 for
\* Uint8Clamped), and is x itself when x is in the range of T.
C14_RoundTripIsCanonical ==
    (/\ last.op = "rawBytesToNumeric"
     /\ last.this.v \notin FloatTypes
     /\ last.a3 = last.a2)
    => LET t == last.this.v
           decoded == last.res.val
       IN IF t \in SmallTypes
          THEN /\ decoded = Number(CanonicalizeSmall(t, last.a1.v))
               /\ (last.a1.v = CanonicalizeSmall(t, last.a1.v)) => decoded = last.a1
          ELSE /\ decoded.t \in {"number", "rational", "bigint"}
               /\ integral(decoded) = CanonicalizeWide(t, integral(last.a1))
               /\ InRangeWide(t, integral(last.a1)) => integral(decoded) = integral(last.a1)

\* -1 written big-endian as a Uint32 was read back as 2^32 - 1
C14_Witness ==
    /\ last.op = "rawBytesToNumeric"
    /\ last.a2 = Boolean(FALSE)
    /\ last.a3 = Boolean(FALSE)
    /\ last.this.v = "Uint32Array"
    /\ last.a1 = Number(0 - 1)
    /\ last.res.val = Rational(Wide(FALSE, <<255, 255, 255, 255>>))

\* C15: for every element type of more than one byte and every value,
\* numeric_to_raw_bytes with the flag false is the byte-wise reverse of
\* numeric_to_raw_bytes with the flag true; for the types of one byte the two
\* are the same bytes.
C15_BigEndianIsReverse ==
    (last.op = "numericToRawBytes" /\ last.res.kind = "ok")
    => LET t == last.this.v
           other == numeric_to_raw_bytes(t, last.a1, last.a2 # Boolean(TRUE))
       IN /\ other.res.kind = "ok"
          /\ Len(last.ret.v) = element_size(t)
          /\ Len(other.bytes) = element_size(t)
          /\ \A i \in 1..element_size(t) :
                last.ret.v[i] = other.bytes[element_size(t) + 1 - i]

\* 0x01020304 was written big-endian as an Int32
C15_Witness ==
    /\ last.op = "numericToRawBytes"
    /\ last.a2 = Boolean(FALSE)
    /\ last.this.v = "Int32Array"
    /\ last.a1 = Number(16909060)
    /\ last.ret.v = <<1, 2, 3, 4>>

\* C18: is_no_tear_configuration(T, order) is true for Int8, Uint8, Int16,
\* Uint16, Int32 and Uint32 under every order; for BigInt64 and BigUint64 it is
\* true under SeqCst and false under Init and Unordered; for Uint8Clamped,
\* Float32 and Float64 it is false under every order.
C18_NoTearTable ==
    last.op = "isNoTearConfiguration"
    => LET t == last.this.v
           order == last.a1.v
       IN last.res =
             Ok(Boolean(CASE t \in {"Int8Array", "Uint8Array", "Int16Array", "Uint16Array",
                                    "Int32Array", "Uint32Array"} -> TRUE
                          [] t \in {"BigInt64Array", "BigUint64Array"} -> order = "SeqCst"
                          [] t \in {"Uint8ClampedArray", "Float32Array", "Float64Array"}
                                -> FALSE))

\* the decision was false for BigInt64 under Unordered
C18_Witness ==
    /\ last.op = "isNoTearConfiguration"
    /\ last.this.v = "BigInt64Array"
    /\ last.a1.v = "Unordered"
    /\ last.res = Ok(Boolean(FALSE))

Coercion(t, value) == IF t \in BigIntTypes THEN to_bigint(value) ELSE to_number(value)
\* a call of set_value_in_buffer on an attached buffer with the element inside
SetInBounds ==
    /\ last.op = "none"
    /\ last'.op = "setValueInBuffer"
    /\ Attached(last'.this.v)
    /\ last'.a1.v + element_size(last'.a3.v) <= Len(BytesOf(last'.this.v))

\* C13: set_value_in_buffer on an attached buffer with the element in bounds:
\* when the coercion of the value fails the call returns the error of the
\* coercion and the heap (so every byte of the buffer) is unchanged; when it
\* succeeds the call returns undefined.
C13_CoercionFailureWritesNothing ==
    [][SetInBounds
       => LET coerced == Coercion(last'.a3.v, last'.a2)
          IN IF coerced.kind # "ok"
             THEN last'.res = coerced /\ heap' = heap
             ELSE last'.res = Ok(Undefined)]_vars

\* a symbol was set as an Int32 at offset 2 of a buffer of 8 different bytes
C13_Witness ==
    /\ last.op = "setValueInBuffer"
    /\ last.a2 = SymbolValue
    /\ last.a3 = TypeValue("Int32Array")
    /\ last.a1 = Number(2)
    /\ last.res.kind = "TypeError"
    /\ heap[1].array_buffer_data = Some(Ramp(8))

\* the bytes of the element, the least significant first, by the arithmetic
\* of the claim for the integer types
ExpectedLeBytes(t, value) ==
    CASE t = "Uint8ClampedArray" -> <<CanonicalizeSmall(t, value.v)>>
      [] t \in FloatTypes -> numeric_to_raw_bytes(t, value, TRUE).bytes
      [] OTHER -> low_digits(ReduceUnsigned(integral(value), element_size(t)).mag,
                             element_size(t))

\* C20: a successful set_value_in_buffer(byte_index, T, value, _, flag) on an
\* attached buffer with byte_index + width(T) <= byteLength changes bytes
\* byte_index .. byte_index + width(T) - 1 only, to the encoding of the value
\* with the least significant byte first when the flag is true or absent and
\* the most significant first when it is false.
C20_SetValueFrame ==
    [][(SetInBounds /\ Coercion(last'.a3.v, last'.a2).kind = "ok")
       => LET b == last'.this.v
              byte_index == last'.a1.v
              width == element_size(last'.a3.v)
              le == ExpectedLeBytes(last'.a3.v, last'.a2)
              encoding == IF last'.ret.v = Flag(FALSE) THEN Reverse(le) ELSE le
              before == BytesOf(b)
              after == heap'[b].array_buffer_data.bytes
          IN /\ last'.res = Ok(Undefined)
             /\ heap'[b].array_buffer_data.present
             /\ Len(after) = Len(before)
             /\ heap'[b].array_buffer_byte_length = heap[b].array_buffer_byte_length
             /\ \A i \in 1..Len(before) :
                   after[i] = IF i > byte_index /\ i <= byte_index + width
                              THEN encoding[i - byte_index]
                              ELSE before[i]
             /\ \A c \in BufIds \ {b} : heap'[c] = heap[c]]_vars

\* 0x01020304 was set as an Int32 with the flag absent at offset 0 of a buffer
\* of 8 zero bytes
C20_Witness ==
    /\ last.op = "setValueInBuffer"
    /\ last.a1 = Number(0)
    /\ last.a2 = Number(16909060)
    /\ last.a3 = TypeValue("Int32Array")
    /\ last.ret = FlagValue(NoFlag)
    /\ last.res = Ok(Undefined)
    /\ heap[1].array_buffer_data = Some(<<4, 3, 2, 1, 0, 0, 0, 0>>)

\* C16: copy_data_block_bytes(to_block, to_index, from_block, from_index, count)
\* with from_index + count <= |from_block| and to_index + count <= |to_block|
\* returns after exactly count stores with to_block[to_index + i] =
\* from_block[from_index + i] for i < count, the other bytes of to_block, the
\* whole of from_block and both lengths unchanged; when either bound is
\* violated it panics on the assertion with no byte stored.
C16_CopyExactlyCount ==
    [][(last.op = "none" /\ last'.op = "copyDataBlockBytes")
       => LET to_block == BytesOf(1)
              from_block == BytesOf(2)
              toIndex == last'.a1.v
              fromIndex == last'.a2.v
              count == last'.a3.v
              after == heap'[1].array_buffer_data.bytes
          IN IF fromIndex + count <= Len(from_block) /\ toIndex + count <= Len(to_block)
             THEN /\ last'.res = Ok(Undefined)
                  /\ last'.ret = Number(count)
                  /\ Len(after) = Len(to_block)
                  /\ \A i \in 1..Len(to_block) :
                        after[i] = IF i > toIndex /\ i <= toIndex + count
                                   THEN from_block[fromIndex + (i - toIndex)]
                                   ELSE to_block[i]
                  /\ heap'[2] = heap[2]
                  /\ heap'[1].array_buffer_byte_length = heap[1].array_buffer_byte_length
             ELSE /\ last'.res.kind = "panic"
                  /\ last'.ret = Number(0)
                  /\ heap' = heap]_vars

\* the two bytes 1, 2 of the source were copied over the two bytes of the target
C16_Witness ==
    /\ last.op = "copyDataBlockBytes"
    /\ last.a1 = Number(0)
    /\ last.a2 = Number(0)
    /\ last.a3 = Number(2)
    /\ last.ret = Number(2)
    /\ last.res = Ok(Undefined)
    /\ BytesOf(1) = <<1, 2>>
    /\ BytesOf(2) = <<1, 2>>

\* C17: isView(arg) returns true exactly when arg is a typed-array object or a
\* DataView object, and false (never an error) for an ArrayBuffer, a value
\* that is no object, a missing argument and any other object.
C17_IsViewOfEveryView ==
    last.op = "isView"
    => last.res = Ok(Boolean(last.a1 \in {TypedArrayObj, DataViewObj}))

\* the number a start or end argument gives: its valueOf returns the payload
ArgNumber(arg) == IF arg.t = "thunk" THEN Number(arg.v) ELSE arg
\* slice came to its copy_data_block_bytes call: it returned the new buffer,
\* or an assertion of the copy failed
SliceReachedCopy ==
    /\ last.op = "slice"
    /\ last.res.kind = "ok" \/ last.res = Panic("assertion failed")

\* C21: whenever slice reaches its copy_data_block_bytes call both assertions
\* hold, whatever the start, the end and the buffer the species constructor
\* returned: first + newLen <= n, the length of the source, and newLen <= the
\* length of the block of the new buffer; the copy does not panic.
C21_SliceCopyInBounds ==
    SliceReachedCopy
    => LET n == Len(BytesOf(last.this.v))
           first == Clamp(ArgNumber(last.a1), n)
           final == Clamp(ArgNumber(last.a2), n)
           newLen == IF final - first > 0 THEN final - first ELSE 0
       IN /\ last.res.kind = "ok"
          /\ Attached(last.this.v)
          /\ Attached(last.res.val.v)
          /\ first + newLen <= n
          /\ newLen <= Len(BytesOf(last.res.val.v))

\* a slice of one byte from offset 1 was copied into a longer buffer that the
\* species constructor of the user returned
C21_Witness ==
    /\ last.op = "slice"
    /\ last.a3 = UserCtor
    /\ last.a1 = Number(1)
    /\ last.a2 = Number(MaxLen)
    /\ last.res.kind = "ok"
    /\ Len(BytesOf(last.this.v)) = 2
    /\ Len(BytesOf(last.res.val.v)) = 2
====
